---- MODULE Spec2Model ----
(***************************************************************************)
(* Model of src/src/search.rs: the Query builder, its serialization to a   *)
(* URL query string (Query::to_url), Query::execute, and the decoding      *)
(* contract of SearchResults<T>.                                           *)
(*                                                                         *)
(* Text is modelled as a sequence of one-character strings, so that        *)
(* percent-encoding, JSON rendering and decimal formatting are computed    *)
(* character by character, as the code computes them.                      *)
(***************************************************************************)
EXTENDS Integers, Sequences, FiniteSets, TLC

VARIABLES
    q,          \* the Query value the caller holds (struct Query, lines 45-78)
    newArg,     \* history: the text given to Query::new
    lastArg,    \* history: per optional field, the last argument given to its with_*
    lastCall,   \* history: the most recent with_* call, [field, value]
    replaced,   \* history: that call gave its field a value other than the one it held
    pc,         \* "building" | "awaiting" | "returned" (position in Query::execute)
    atCall,     \* the Query as it was when execute was called
    requests,   \* the query strings handed to the transport by the current execute
    outcome,    \* what the transport (Index::search) produced
    result,     \* what execute returned to its caller
    body,       \* a response body handed to the SearchResults<T> decoder
    decoded     \* what decoding that body gave

vars == <<q, newArg, lastArg, lastCall, replaced, pc, atCall, requests, outcome, result,
          body, decoded>>

(***************************************************************************)
(* Bounds of the exploration.                                              *)
(***************************************************************************)
\* At most this many optional fields are present in an explored builder;
\* chains are of any length (a present field may be overwritten at will).
MaxPresent == 2
\* A response body explored differs from the complete well-formed body in at
\* most this many keys (a key dropped, null, ill-typed, or a foreign key added).
MaxDefects == 2

(***************************************************************************)
(* Option<T>: None is the empty sequence, Some(v) the one-element sequence.*)
(***************************************************************************)
None == <<>>
Some(v) == <<v>>
is_some(o) == Len(o) = 1
unwrap(o) == o[1]

(***************************************************************************)
(* Characters.                                                             *)
(***************************************************************************)
AsciiPrintable ==
    <<" ", "!", "\"", "#", "$", "%", "&", "'", "(", ")", "*", "+", ",", "-", ".", "/",
      "0", "1", "2", "3", "4", "5", "6", "7", "8", "9",
      ":", ";", "<", "=", ">", "?", "@",
      "A", "B", "C", "D", "E", "F", "G", "H", "I", "J", "K", "L", "M", "N", "O", "P",
      "Q", "R", "S", "T", "U", "V", "W", "X", "Y", "Z",
      "[", "\\", "]", "^", "_", "grave",
      "a", "b", "c", "d", "e", "f", "g", "h", "i", "j", "k", "l", "m", "n", "o", "p",
      "q", "r", "s", "t", "u", "v", "w", "x", "y", "z",
      "{", "|", "}", "~">>

\* The byte value of a printable ASCII character (space is 32). The grave accent
\* (byte 96) holds its place in the table under a name; no text explored contains it.
Ord(c) == 31 + (CHOOSE i \in 1..Len(AsciiPrintable) : AsciiPrintable[i] = c)

HexDigits == <<"0", "1", "2", "3", "4", "5", "6", "7", "8", "9", "A", "B", "C", "D", "E", "F">>

is_alnum(c) ==
    LET n == Ord(c) IN \/ (48 <= n /\ n <= 57)
                       \/ (65 <= n /\ n <= 90)
                       \/ (97 <= n /\ n <= 122)

\* urlencoding::encode leaves A-Z a-z 0-9 - _ . ~ alone and writes every other
\* byte as %XX in upper-case hexadecimal.
encode_byte(c) ==
    IF is_alnum(c) \/ c \in {"-", "_", ".", "~"}
    THEN <<c>>
    ELSE <<"%", HexDigits[(Ord(c) \div 16) + 1], HexDigits[(Ord(c) % 16) + 1]>>

\* encode_byte tabulated over the printable characters.
EncodedByte == [c \in {AsciiPrintable[i] : i \in 1..Len(AsciiPrintable)} |-> encode_byte(c)]

RECURSIVE encode(_)
encode(data) ==
    IF data = <<>> THEN <<>>
    ELSE EncodedByte[Head(data)] \o encode(Tail(data))

\* usize::to_string: the decimal digits, most significant first, "0" for zero.
RECURSIVE to_string(_)
to_string(n) ==
    IF n < 10 THEN <<HexDigits[n + 1]>>
    ELSE to_string(n \div 10) \o <<HexDigits[(n % 10) + 1]>>

\* serde_json::to_string of a &str: quoted, with " and \ escaped by a backslash.
RECURSIVE json_escape(_)
json_escape(s) ==
    IF s = <<>> THEN <<>>
    ELSE (IF Head(s) \in {"\"", "\\"} THEN <<"\\", Head(s)>> ELSE <<Head(s)>>)
         \o json_escape(Tail(s))

json_str(s) == <<"\"">> \o json_escape(s) \o <<"\"">>

\* serde_json::to_string of a Vec<&str>: compact, [e1,e2,...].
RECURSIVE json_str_items(_)
json_str_items(v) ==
    IF v = <<>> THEN <<>>
    ELSE json_str(Head(v)) \o (IF Tail(v) = <<>> THEN <<>> ELSE <<",">> \o json_str_items(Tail(v)))

json_vec(v) == <<"[">> \o json_str_items(v) \o <<"]">>

\* serde_json::to_string of a Vec<Vec<&str>>.
RECURSIVE json_vec_items(_)
json_vec_items(vv) ==
    IF vv = <<>> THEN <<>>
    ELSE json_vec(Head(vv)) \o (IF Tail(vv) = <<>> THEN <<>> ELSE <<",">> \o json_vec_items(Tail(vv)))

json_vec_vec(vv) == <<"[">> \o json_vec_items(vv) \o <<"]">>

(***************************************************************************)
(* Query::new and the with_* builders.                                     *)
(***************************************************************************)
Query_new(query) ==
    [query |-> query,
     offset |-> None,
     limit |-> None,
     filters |-> None,
     facet_filters |-> None,
     facets_distribution |-> None,
     attributes_to_retrieve |-> None,
     attributes_to_crop |-> None,
     attributes_to_highlight |-> None,
     crop_length |-> None]

with_offset(self, offset) == [self EXCEPT !.offset = Some(offset)]

\* Mutant: the builder is rebuilt from limit on, and offset is lost.
with_limit_drops_offset(self, limit) == [self EXCEPT !.limit = Some(limit), !.offset = None]

with_limit(self, limit) == [self EXCEPT !.limit = Some(limit)]

with_filters(self, filters) == [self EXCEPT !.filters = Some(filters)]

with_facet_filters(self, facet_filters) == [self EXCEPT !.facet_filters = Some(facet_filters)]

\* Mutant: a value already present is kept.
with_facets_distribution_keep(self, facets_distribution) ==
    IF is_some(self.facets_distribution) THEN self
    ELSE [self EXCEPT !.facets_distribution = Some(facets_distribution)]

with_facets_distribution(self, facets_distribution) ==
    [self EXCEPT !.facets_distribution = Some(facets_distribution)]

with_attributes_to_retrieve(self, attributes_to_retrieve) ==
    [self EXCEPT !.attributes_to_retrieve = Some(attributes_to_retrieve)]

with_attributes_to_crop(self, attributes_to_crop) ==
    [self EXCEPT !.attributes_to_crop = Some(attributes_to_crop)]

\* Mutant: the field of the neighbouring setter is the one set.
with_attributes_to_highlight_pasted(self, attributes_to_highlight) ==
    [self EXCEPT !.attributes_to_crop = Some(attributes_to_highlight)]

with_attributes_to_highlight(self, attributes_to_highlight) ==
    [self EXCEPT !.attributes_to_highlight = Some(attributes_to_highlight)]

with_crop_length(self, crop_length) == [self EXCEPT !.crop_length = Some(crop_length)]

(***************************************************************************)
(* Query::to_url, statement by statement.                                  *)
(***************************************************************************)
\* Mutant: the query text is written as given.
url_q_raw(self) == <<"?", "q", "=">> \o self.query

url_q(self) == <<"?", "q", "=">> \o encode(self.query)

push_offset(url, self) ==
    IF is_some(self.offset)
    THEN url \o <<"&", "o", "f", "f", "s", "e", "t", "=">> \o to_string(unwrap(self.offset))
    ELSE url

\* Mutant: limit is written under the name of offset.
push_limit_as_offset(url, self) ==
    IF is_some(self.limit)
    THEN url \o <<"&", "o", "f", "f", "s", "e", "t", "=">> \o to_string(unwrap(self.limit))
    ELSE url

push_limit(url, self) ==
    IF is_some(self.limit)
    THEN url \o <<"&", "l", "i", "m", "i", "t", "=">> \o to_string(unwrap(self.limit))
    ELSE url

\* Mutant: the filter is written as given.
push_filters_raw(url, self) ==
    IF is_some(self.filters)
    THEN url \o <<"&", "f", "i", "l", "t", "e", "r", "s", "=">> \o unwrap(self.filters)
    ELSE url

push_filters(url, self) ==
    IF is_some(self.filters)
    THEN url \o <<"&", "f", "i", "l", "t", "e", "r", "s", "=">> \o encode(unwrap(self.filters))
    ELSE url

\* Mutant: the parameter is written only for a non-empty list.
push_facet_filters_nonempty(url, self) ==
    IF is_some(self.facet_filters) /\ unwrap(self.facet_filters) # <<>>
    THEN url \o <<"&", "f", "a", "c", "e", "t", "F", "i", "l", "t", "e", "r", "s", "=">>
             \o encode(json_vec_vec(unwrap(self.facet_filters)))
    ELSE url

push_facet_filters(url, self) ==
    IF is_some(self.facet_filters)
    THEN url \o <<"&", "f", "a", "c", "e", "t", "F", "i", "l", "t", "e", "r", "s", "=">>
             \o encode(json_vec_vec(unwrap(self.facet_filters)))
    ELSE url

\* Mutant: the wildcard goes through the encoder like any other value.
push_facets_distribution_encoded(url, self) ==
    IF is_some(self.facets_distribution)
    THEN LET facets_distribution == unwrap(self.facets_distribution)
             head == url \o <<"&", "f", "a", "c", "e", "t", "s", "D", "i", "s", "t", "r", "i",
                              "b", "u", "t", "i", "o", "n", "=">>
         IN IF is_some(facets_distribution)
            THEN head \o encode(json_vec(unwrap(facets_distribution)))
            ELSE head \o encode(<<"*">>)
    ELSE url

push_facets_distribution(url, self) ==
    IF is_some(self.facets_distribution)
    THEN LET facets_distribution == unwrap(self.facets_distribution)
             head == url \o <<"&", "f", "a", "c", "e", "t", "s", "D", "i", "s", "t", "r", "i",
                              "b", "u", "t", "i", "o", "n", "=">>
         IN IF is_some(facets_distribution)
            THEN head \o encode(json_vec(unwrap(facets_distribution)))
            ELSE head \o <<"*">>
    ELSE url

push_attributes_to_retrieve(url, self) ==
    IF is_some(self.attributes_to_retrieve)
    THEN url \o <<"&", "a", "t", "t", "r", "i", "b", "u", "t", "e", "s", "T", "o", "R", "e", "t",
                   "r", "i", "e", "v", "e", "=">>
             \o encode(unwrap(self.attributes_to_retrieve))
    ELSE url

push_attributes_to_crop(url, self) ==
    IF is_some(self.attributes_to_crop)
    THEN url \o <<"&", "a", "t", "t", "r", "i", "b", "u", "t", "e", "s", "T", "o", "C", "r", "o",
                   "p", "=">>
             \o encode(unwrap(self.attributes_to_crop))
    ELSE url

push_crop_length(url, self) ==
    IF is_some(self.crop_length)
    THEN url \o <<"&", "c", "r", "o", "p", "L", "e", "n", "g", "t", "h", "=">>
             \o to_string(unwrap(self.crop_length))
    ELSE url

push_attributes_to_highlight(url, self) ==
    IF is_some(self.attributes_to_highlight)
    THEN url \o <<"&", "a", "t", "t", "r", "i", "b", "u", "t", "e", "s", "T", "o", "H", "i", "g",
                   "h", "l", "i", "g", "h", "t", "=">>
             \o encode(unwrap(self.attributes_to_highlight))
    ELSE url

to_url(self) ==
    LET u0 == url_q(self)
        u1 == push_offset(u0, self)
        u2 == push_limit(u1, self)
        u3 == push_filters(u2, self)
        u4 == push_facet_filters(u3, self)
        u5 == push_facets_distribution(u4, self)
        u6 == push_attributes_to_retrieve(u5, self)
        u7 == push_attributes_to_crop(u6, self)
        u8 == push_crop_length(u7, self)
    IN push_attributes_to_highlight(u8, self)

(***************************************************************************)
(* The inputs explored.                                                    *)
(***************************************************************************)
T_empty == <<>>
T_space == <<"s", "p", "a", "c", "e">>
T_inject_limit == <<"&", "l", "i", "m", "i", "t", "=", "0">>
T_inject_facets == <<"&", "f", "a", "c", "e", "t", "s", "D", "i", "s", "t", "r", "i", "b", "u",
                     "t", "i", "o", "n", "=", "*">>
T_title == <<"t", "i", "t", "l", "e">>
T_list == <<"a", ",", "b", "?", "c">>
T_star == <<"*">>
T_quote == <<"a", "\"", "\\">>

QueryTexts == {T_empty, T_space, T_inject_limit}
OffsetValues == {0, 42}
LimitValues == {0, 21}
CropLengthValues == {0, 200}
FilterTexts == {T_empty, T_inject_limit}
FacetFilterValues == {<<>>, << <<T_title, T_quote>>, <<T_inject_limit>> >>}
FacetsDistributionValues == {None, Some(<<>>), Some(<<T_star, T_quote>>)}
AttributeTexts == {T_title, T_inject_facets}
CropTexts == {T_star, T_list}

Fields == {"offset", "limit", "filters", "facet_filters", "facets_distribution",
           "attributes_to_retrieve", "attributes_to_crop", "crop_length",
           "attributes_to_highlight"}

Values(f) ==
    CASE f = "offset" -> OffsetValues
      [] f = "limit" -> LimitValues
      [] f = "filters" -> FilterTexts
      [] f = "facet_filters" -> FacetFilterValues
      [] f = "facets_distribution" -> FacetsDistributionValues
      [] f = "attributes_to_retrieve" -> AttributeTexts
      [] f = "attributes_to_crop" -> CropTexts
      [] f = "crop_length" -> CropLengthValues
      [] f = "attributes_to_highlight" -> AttributeTexts

\* The field of a Query by name.
Get(self, f) ==
    CASE f = "offset" -> self.offset
      [] f = "limit" -> self.limit
      [] f = "filters" -> self.filters
      [] f = "facet_filters" -> self.facet_filters
      [] f = "facets_distribution" -> self.facets_distribution
      [] f = "attributes_to_retrieve" -> self.attributes_to_retrieve
      [] f = "attributes_to_crop" -> self.attributes_to_crop
      [] f = "crop_length" -> self.crop_length
      [] f = "attributes_to_highlight" -> self.attributes_to_highlight

\* The with_* call on field f with argument v.
Apply(self, f, v) ==
    CASE f = "offset" -> with_offset(self, v)
      [] f = "limit" -> with_limit(self, v)
      [] f = "filters" -> with_filters(self, v)
      [] f = "facet_filters" -> with_facet_filters(self, v)
      [] f = "facets_distribution" -> with_facets_distribution(self, v)
      [] f = "attributes_to_retrieve" -> with_attributes_to_retrieve(self, v)
      [] f = "attributes_to_crop" -> with_attributes_to_crop(self, v)
      [] f = "crop_length" -> with_crop_length(self, v)
      [] f = "attributes_to_highlight" -> with_attributes_to_highlight(self, v)

Present(self) == {f \in Fields : is_some(Get(self, f))}

NoCall == [field |-> "none", value |-> 0]

(***************************************************************************)
(* SearchResults<T> and its derived Deserialize.                           *)
(***************************************************************************)
Ok(v) == [ok |-> TRUE, value |-> v, error |-> "none"]
Err(e) == [ok |-> FALSE, value |-> <<>>, error |-> e]

\* The fields of struct SearchResults<T>, in declaration order, with their types.
SearchResultsFields ==
    << [name |-> <<"h", "i", "t", "s">>, type |-> "Vec<T>", option |-> FALSE],
       [name |-> <<"o", "f", "f", "s", "e", "t">>, type |-> "usize", option |-> FALSE],
       [name |-> <<"l", "i", "m", "i", "t">>, type |-> "usize", option |-> FALSE],
       [name |-> <<"n", "b", "_", "h", "i", "t", "s">>, type |-> "usize", option |-> FALSE],
       [name |-> <<"e", "x", "h", "a", "u", "s", "t", "i", "v", "e", "_", "n", "b", "_",
                   "h", "i", "t", "s">>, type |-> "bool", option |-> FALSE],
       [name |-> <<"f", "a", "c", "e", "t", "s", "_", "d", "i", "s", "t", "r", "i", "b",
                   "u", "t", "i", "o", "n">>, type |-> "HashMap", option |-> TRUE],
       [name |-> <<"e", "x", "h", "a", "u", "s", "t", "i", "v", "e", "_", "f", "a", "c",
                   "e", "t", "s", "_", "c", "o", "u", "n", "t">>, type |-> "bool", option |-> TRUE],
       [name |-> <<"p", "r", "o", "c", "e", "s", "s", "i", "n", "g", "_", "t", "i", "m",
                   "e", "_", "m", "s">>, type |-> "usize", option |-> FALSE],
       [name |-> <<"q", "u", "e", "r", "y">>, type |-> "String", option |-> FALSE] >>

to_ascii_uppercase(c) ==
    IF 97 <= Ord(c) /\ Ord(c) <= 122 THEN AsciiPrintable[Ord(c) - 32 - 31] ELSE c

\* #[serde(rename_all = "camelCase")]: every '_' is dropped and the letter after
\* it is upper-cased; the first letter stays as it is in a snake_case name.
RECURSIVE camel_tail(_, _)
camel_tail(name, capitalize) ==
    IF name = <<>> THEN <<>>
    ELSE IF Head(name) = "_" THEN camel_tail(Tail(name), TRUE)
    ELSE (IF capitalize THEN <<to_ascii_uppercase(Head(name))>> ELSE <<Head(name)>>)
         \o camel_tail(Tail(name), FALSE)

rename_camel_case(name) == camel_tail(name, FALSE)

\* The key each field is read from, tabulated.
WireKey ==
    [name \in {SearchResultsFields[i].name : i \in 1..Len(SearchResultsFields)} |->
        rename_camel_case(name)]

\* A JSON value is modelled by its shape; whether a shape is accepted by a Rust
\* type is what decides the decoding.
JsonShapes == {"null", "bool", "uint", "string", "array_of_T", "object_of_counts"}

deserialize_accepts(type, shape) ==
    CASE type = "Vec<T>" -> shape = "array_of_T"
      [] type = "usize" -> shape = "uint"
      [] type = "bool" -> shape = "bool"
      [] type = "String" -> shape = "string"
      [] type = "HashMap" -> shape = "object_of_counts"

\* Mutant: an Option field needs its key like any other field.
deserialize_field_strict(fd, json) ==
    LET key == WireKey[fd.name] IN
    IF key \notin DOMAIN json
    THEN None
    ELSE IF fd.option /\ json[key] = "null" THEN Some(None)
    ELSE IF deserialize_accepts(fd.type, json[key])
         THEN Some(IF fd.option THEN Some(json[key]) ELSE json[key])
         ELSE None

\* One field of the struct: Some(value) when it decodes, None when it does not.
\* An Option field takes a missing key or null as None; other fields need the key.
deserialize_field(fd, json) ==
    LET key == WireKey[fd.name] IN
    IF key \notin DOMAIN json
    THEN (IF fd.option THEN Some(None) ELSE None)
    ELSE IF fd.option /\ json[key] = "null" THEN Some(None)
    ELSE IF deserialize_accepts(fd.type, json[key])
         THEN Some(IF fd.option THEN Some(json[key]) ELSE json[key])
         ELSE None

\* serde_json::from_str::<SearchResults<T>> on a JSON object: every field must
\* decode; keys that name no field are skipped.
from_json(json) ==
    LET n == Len(SearchResultsFields)
        got == [i \in 1..n |-> deserialize_field(SearchResultsFields[i], json)]
    IN IF \A i \in 1..n : is_some(got[i])
       THEN Ok([i \in 1..n |-> unwrap(got[i])])
       ELSE Err("decode")

(***************************************************************************)
(* Response bodies.                                                        *)
(***************************************************************************)
K_hits == <<"h", "i", "t", "s">>
K_offset == <<"o", "f", "f", "s", "e", "t">>
K_limit == <<"l", "i", "m", "i", "t">>
K_nbHits == <<"n", "b", "H", "i", "t", "s">>
K_exhaustiveNbHits == <<"e", "x", "h", "a", "u", "s", "t", "i", "v", "e", "N", "b", "H", "i", "t", "s">>
K_facetsDistribution == <<"f", "a", "c", "e", "t", "s", "D", "i", "s", "t", "r", "i", "b", "u",
                          "t", "i", "o", "n">>
K_exhaustiveFacetsCount == <<"e", "x", "h", "a", "u", "s", "t", "i", "v", "e", "F", "a", "c", "e",
                             "t", "s", "C", "o", "u", "n", "t">>
K_processingTimeMs == <<"p", "r", "o", "c", "e", "s", "s", "i", "n", "g", "T", "i", "m", "e", "M", "s">>
K_query == <<"q", "u", "e", "r", "y">>
K_nb_hits == <<"n", "b", "_", "h", "i", "t", "s">>
K_took == <<"t", "o", "o", "k">>

\* The documented response with every key present and well typed.
CompleteBody ==
    (K_hits :> "array_of_T") @@ (K_offset :> "uint") @@ (K_limit :> "uint")
    @@ (K_nbHits :> "uint") @@ (K_exhaustiveNbHits :> "bool")
    @@ (K_facetsDistribution :> "object_of_counts") @@ (K_exhaustiveFacetsCount :> "bool")
    @@ (K_processingTimeMs :> "uint") @@ (K_query :> "string")

DocumentedKeys == DOMAIN CompleteBody
ForeignKeys == {K_nb_hits, K_took}

Without(json, k) == [x \in (DOMAIN json) \ {k} |-> json[x]]
WithKey(json, k, shape) == [x \in (DOMAIN json) \cup {k} |-> IF x = k THEN shape ELSE json[x]]

\* The keys of json that are as the complete body has them.
Pristine(json) ==
    {k \in DocumentedKeys : k \in DOMAIN json /\ json[k] = CompleteBody[k]}
    \cup (ForeignKeys \ DOMAIN json)

\* The bodies with one more defect than json: a documented key dropped or given
\* another shape, or a foreign key added.
Defective(json) ==
    {Without(json, k) : k \in Pristine(json) \cap DocumentedKeys}
    \cup {WithKey(json, k, s) : k \in Pristine(json) \cap DocumentedKeys, s \in JsonShapes}
    \cup {WithKey(json, k, "uint") : k \in Pristine(json) \cap ForeignKeys}

RECURSIVE BodiesWithin(_)
BodiesWithin(n) ==
    IF n = 0 THEN {CompleteBody}
    ELSE LET B == BodiesWithin(n - 1)
         IN B \cup UNION {Defective(json) : json \in B}

(***************************************************************************)
(* The transport, Index::search, as the builder's execute sees it.         *)
(***************************************************************************)
\* What the transport may come back with: a failure of its own, or a body.
Responses ==
    {[status |-> "failed", body |-> <<>>],
     [status |-> "body", body |-> CompleteBody],
     [status |-> "body", body |-> Without(CompleteBody, K_nbHits)]}

\* The request Index::search issues for a query: its serialized query string.
Index_search_request(query) == to_url(query)

\* The outcome of Index::search for what came back.
Index_search_outcome(response) ==
    IF response.status = "failed" THEN Err("transport") ELSE from_json(response.body)

(***************************************************************************)
(* The caller: Query::new, then any chain of with_* calls, then execute.   *)
(***************************************************************************)
Init ==
    /\ \E text \in QueryTexts : q = Query_new(text) /\ newArg = text
    /\ replaced = FALSE
    /\ lastArg = [f \in Fields |-> None]
    /\ lastCall = NoCall
    /\ pc = "building"
    /\ atCall = None
    /\ requests = <<>>
    /\ outcome = None
    /\ result = None
    /\ body = None
    /\ decoded = None

\* A with_* call is explored when its field is present already or one more may be.
CanSet(f) == pc = "building" /\ (f \in Present(q) \/ Cardinality(Present(q)) < MaxPresent)

\* The history of a with_* call on field f with argument v.
Called(f, v) ==
    /\ replaced' = (lastArg[f] # None /\ lastArg[f] # Some(v))
    /\ lastArg' = [lastArg EXCEPT ![f] = Some(v)]
    /\ lastCall' = [field |-> f, value |-> v]
    /\ UNCHANGED <<newArg, pc, atCall, requests, outcome, result, body, decoded>>

\* The caller replaces its builder by the value the with_* call returns.
WithOffset ==
    \E offset \in OffsetValues :
        CanSet("offset") /\ q' = with_offset(q, offset) /\ Called("offset", offset)

WithLimit ==
    \E limit \in LimitValues :
        CanSet("limit") /\ q' = with_limit(q, limit) /\ Called("limit", limit)

WithFilters ==
    \E filters \in FilterTexts :
        CanSet("filters") /\ q' = with_filters(q, filters) /\ Called("filters", filters)

WithFacetFilters ==
    \E facet_filters \in FacetFilterValues :
        /\ CanSet("facet_filters")
        /\ q' = with_facet_filters(q, facet_filters)
        /\ Called("facet_filters", facet_filters)

WithFacetsDistribution ==
    \E facets_distribution \in FacetsDistributionValues :
        /\ CanSet("facets_distribution")
        /\ q' = with_facets_distribution(q, facets_distribution)
        /\ Called("facets_distribution", facets_distribution)

WithAttributesToRetrieve ==
    \E attributes_to_retrieve \in AttributeTexts :
        /\ CanSet("attributes_to_retrieve")
        /\ q' = with_attributes_to_retrieve(q, attributes_to_retrieve)
        /\ Called("attributes_to_retrieve", attributes_to_retrieve)

WithAttributesToCrop ==
    \E attributes_to_crop \in CropTexts :
        /\ CanSet("attributes_to_crop")
        /\ q' = with_attributes_to_crop(q, attributes_to_crop)
        /\ Called("attributes_to_crop", attributes_to_crop)

WithCropLength ==
    \E crop_length \in CropLengthValues :
        CanSet("crop_length") /\ q' = with_crop_length(q, crop_length) /\ Called("crop_length", crop_length)

WithAttributesToHighlight ==
    \E attributes_to_highlight \in AttributeTexts :
        /\ CanSet("attributes_to_highlight")
        /\ q' = with_attributes_to_highlight(q, attributes_to_highlight)
        /\ Called("attributes_to_highlight", attributes_to_highlight)

\* execute, up to its await: index.search(&self) is called, once, with the
\* builder as it is.
execute_call(self, sent) == Append(sent, Index_search_request(self))

\* execute, from its await on: what index.search gave is what execute returns.
\* Mutant: a failed search is tried once more before execute returns.
execute_return_retry(self, sent, searched) ==
    IF ~searched.ok /\ Len(sent) < 2
    THEN [pc |-> "awaiting", requests |-> Append(sent, Index_search_request(self)), result |-> None]
    ELSE [pc |-> "returned", requests |-> sent, result |-> Some(searched)]

execute_return(self, sent, searched) ==
    [pc |-> "returned", requests |-> sent, result |-> Some(searched)]

Execute ==
    /\ pc = "building"
    /\ pc' = "awaiting"
    /\ atCall' = Some(q)
    /\ requests' = execute_call(q, requests)
    /\ UNCHANGED <<q, newArg, lastArg, lastCall, replaced, outcome, result, body, decoded>>

\* The transport answers; the builder is borrowed meanwhile, so no with_* runs.
ExecuteReturn ==
    /\ pc = "awaiting"
    /\ \E response \in Responses :
         LET searched == Index_search_outcome(response)
             after == execute_return(q, requests, searched)
         IN /\ outcome' = Some(searched)
            /\ pc' = after.pc
            /\ requests' = after.requests
            /\ result' = after.result
    /\ UNCHANGED <<q, newArg, lastArg, lastCall, replaced, atCall, body, decoded>>

Next ==
    \/ WithOffset
    \/ WithLimit
    \/ WithFilters
    \/ WithFacetFilters
    \/ WithFacetsDistribution
    \/ WithAttributesToRetrieve
    \/ WithAttributesToCrop
    \/ WithCropLength
    \/ WithAttributesToHighlight
    \/ Execute
    \/ ExecuteReturn

Spec == Init /\ [][Next]_vars

(***************************************************************************)
(* Decoding on its own: any explored body is handed to the decoder.        *)
(***************************************************************************)
DecodeInit ==
    /\ q = Query_new(T_empty) /\ newArg = T_empty
    /\ replaced = FALSE
    /\ lastArg = [f \in Fields |-> None]
    /\ lastCall = NoCall
    /\ pc = "building"
    /\ atCall = None
    /\ requests = <<>>
    /\ outcome = None
    /\ result = None
    /\ body \in {Some(json) : json \in BodiesWithin(MaxDefects)}
    /\ decoded = None

Decode ==
    /\ body # None
    /\ decoded = None
    /\ decoded' = Some(from_json(unwrap(body)))
    /\ UNCHANGED <<q, newArg, lastArg, lastCall, replaced, pc, atCall, requests, outcome,
                   result, body>>

DecodeNext == Decode

DecodeSpec == DecodeInit /\ [][DecodeNext]_vars

(***************************************************************************)
(* Reading a query string back: the pairs between the '&' separators.      *)
(***************************************************************************)
Min(S) == CHOOSE x \in S : \A y \in S : x <= y

RECURSIVE Split(_, _)
Split(s, sep) ==
    LET at == {i \in 1..Len(s) : s[i] = sep}
    IN IF at = {} THEN <<s>>
       ELSE <<SubSeq(s, 1, Min(at) - 1)>> \o Split(SubSeq(s, Min(at) + 1, Len(s)), sep)

Count(s, c) == Cardinality({i \in 1..Len(s) : s[i] = c})

\* name=value, cut at the first '='.
Pair(piece) ==
    LET at == {i \in 1..Len(piece) : piece[i] = "="}
    IN IF at = {} THEN [name |-> piece, value |-> <<>>]
       ELSE [name |-> SubSeq(piece, 1, Min(at) - 1),
             value |-> SubSeq(piece, Min(at) + 1, Len(piece))]

\* The pairs after the leading ?q=... piece, in the order they are written.
Params(url) ==
    LET pieces == Split(url, "&")
    IN [i \in 1..(Len(pieces) - 1) |-> Pair(pieces[i + 1])]

\* The parameter names of the wire contract.
WireName(f) ==
    CASE f = "offset" -> <<"o", "f", "f", "s", "e", "t">>
      [] f = "limit" -> <<"l", "i", "m", "i", "t">>
      [] f = "filters" -> <<"f", "i", "l", "t", "e", "r", "s">>
      [] f = "facet_filters" -> <<"f", "a", "c", "e", "t", "F", "i", "l", "t", "e", "r", "s">>
      [] f = "facets_distribution" ->
            <<"f", "a", "c", "e", "t", "s", "D", "i", "s", "t", "r", "i", "b", "u", "t", "i", "o", "n">>
      [] f = "attributes_to_retrieve" ->
            <<"a", "t", "t", "r", "i", "b", "u", "t", "e", "s", "T", "o", "R", "e", "t", "r", "i", "e", "v", "e">>
      [] f = "attributes_to_crop" ->
            <<"a", "t", "t", "r", "i", "b", "u", "t", "e", "s", "T", "o", "C", "r", "o", "p">>
      [] f = "crop_length" -> <<"c", "r", "o", "p", "L", "e", "n", "g", "t", "h">>
      [] f = "attributes_to_highlight" ->
            <<"a", "t", "t", "r", "i", "b", "u", "t", "e", "s", "T", "o", "H", "i", "g", "h", "l", "i", "g", "h", "t">>

\* Where the pairs named after field f stand among the pairs ps.
Places(ps, f) == {i \in DOMAIN ps : ps[i].name = WireName(f)}

\* The value written for field f in the pairs ps; when f is not written exactly
\* once, a value that is no text.
Written(ps, f) ==
    IF Cardinality(Places(ps, f)) = 1
    THEN ps[CHOOSE i \in Places(ps, f) : TRUE].value
    ELSE <<"not written once">>

\* The fields whose with_* has been called.
CalledFields == {f \in Fields : lastArg[f] # None}

E_empty_list == <<"%", "5", "B", "%", "5", "D">>

(***************************************************************************)
(* C1. Presence/absence law: in the query string of every builder built    *)
(* from Query::new by with_* calls, each of the nine parameters is written *)
(* exactly once when its with_* has been called and not at all otherwise;  *)
(* an explicitly given empty facet filter list is written as %5B%5D and an *)
(* explicitly given offset 0 as 0.                                         *)
(***************************************************************************)
C1_PresenceLaw ==
    LET ps == Params(to_url(q)) IN
    /\ \A f \in Fields :
          Cardinality(Places(ps, f)) = (IF f \in CalledFields THEN 1 ELSE 0)
    /\ lastArg["facet_filters"] = Some(<<>>) => Written(ps, "facet_filters") = E_empty_list
    /\ lastArg["offset"] = Some(0) => Written(ps, "offset") = <<"0">>

C1_Witness ==
    /\ lastArg["facet_filters"] = Some(<<>>)
    /\ lastArg["offset"] = Some(0)
    /\ CalledFields = {"facet_filters", "offset"}
    /\ Cardinality(DOMAIN Params(to_url(q))) = 2

\* The builder made from Query::new by one with_* call per called field, each
\* with the last argument its field was given, in the order of the wire contract.
LastCallsOnly ==
    LET b0 == Query_new(newArg)
        b1 == IF lastArg["offset"] # None
              THEN with_offset(b0, unwrap(lastArg["offset"])) ELSE b0
        b2 == IF lastArg["limit"] # None
              THEN with_limit(b1, unwrap(lastArg["limit"])) ELSE b1
        b3 == IF lastArg["filters"] # None
              THEN with_filters(b2, unwrap(lastArg["filters"])) ELSE b2
        b4 == IF lastArg["facet_filters"] # None
              THEN with_facet_filters(b3, unwrap(lastArg["facet_filters"])) ELSE b3
        b5 == IF lastArg["facets_distribution"] # None
              THEN with_facets_distribution(b4, unwrap(lastArg["facets_distribution"])) ELSE b4
        b6 == IF lastArg["attributes_to_retrieve"] # None
              THEN with_attributes_to_retrieve(b5, unwrap(lastArg["attributes_to_retrieve"])) ELSE b5
        b7 == IF lastArg["attributes_to_crop"] # None
              THEN with_attributes_to_crop(b6, unwrap(lastArg["attributes_to_crop"])) ELSE b6
        b8 == IF lastArg["crop_length"] # None
              THEN with_crop_length(b7, unwrap(lastArg["crop_length"])) ELSE b7
    IN IF lastArg["attributes_to_highlight"] # None
       THEN with_attributes_to_highlight(b8, unwrap(lastArg["attributes_to_highlight"])) ELSE b8

(***************************************************************************)
(* C3. Last-write-wins: whatever chain of with_* calls built the builder,  *)
(* overwriting calls and calls on other fields in between included, its    *)
(* query string is that of the builder given only the last argument of     *)
(* each called field; an earlier argument leaves no trace. This holds for  *)
(* facets_distribution changing between the wildcard and a list too.       *)
(***************************************************************************)
C3_LastWriteWins == to_url(q) = to_url(LastCallsOnly)

\* The last call put the wildcard where a list had been given, with another
\* field present.
C3_Witness ==
    /\ replaced
    /\ lastCall.field = "facets_distribution"
    /\ lastCall.value = None
    /\ Cardinality(CalledFields) >= 2

E_star_quote_list ==
    <<"%", "5", "B", "%", "2", "2", "%", "2", "A", "%", "2", "2", "%", "2", "C", "%", "2", "2",
      "a", "%", "5", "C", "%", "2", "2", "%", "5", "C", "%", "5", "C", "%", "2", "2", "%", "5", "D">>

(***************************************************************************)
(* C4. Wildcard law: facetsDistribution is not written when                *)
(* with_facets_distribution was never called; it is written as the single  *)
(* character * when the last call gave None; and as the percent-encoded    *)
(* compact JSON array when the last call gave a list, %5B%5D for the empty *)
(* list, which is never the text *.                                        *)
(***************************************************************************)
C4_WildcardLaw ==
    LET ps == Params(to_url(q))
        given == lastArg["facets_distribution"]
    IN /\ given = None => Places(ps, "facets_distribution") = {}
       /\ given = Some(None) => Written(ps, "facets_distribution") = <<"*">>
       /\ given = Some(Some(<<>>)) => Written(ps, "facets_distribution") = E_empty_list
       /\ given = Some(Some(<<T_star, T_quote>>))
             => Written(ps, "facets_distribution") = E_star_quote_list
       /\ (given # None /\ given # Some(None))
             => /\ Written(ps, "facets_distribution") = encode(json_vec(unwrap(unwrap(given))))
                /\ Written(ps, "facets_distribution") # <<"*">>

\* The wildcard was given, and another field is present.
C4_Witness ==
    /\ lastArg["facets_distribution"] = Some(None)
    /\ Cardinality(CalledFields) >= 2
    /\ Written(Params(to_url(q)), "facets_distribution") = <<"*">>

\* The percent-encodings of the query texts explored.
E_query(text) ==
    CASE text = T_empty -> <<>>
      [] text = T_space -> <<"s", "p", "a", "c", "e">>
      [] text = T_inject_limit -> <<"%", "2", "6", "l", "i", "m", "i", "t", "%", "3", "D", "0">>

(***************************************************************************)
(* C5. The query string of every builder begins with ?q= followed by the   *)
(* percent-encoding of the text given to Query::new, whichever optional    *)
(* fields are set; with no with_* called it is exactly that, and for the   *)
(* empty text exactly ?q= .                                                *)
(***************************************************************************)
C5_QueryPrefix ==
    LET url == to_url(q)
        head == <<"?", "q", "=">> \o E_query(newArg)
    IN /\ encode(newArg) = E_query(newArg)
       /\ Len(url) >= Len(head)
       /\ SubSeq(url, 1, Len(head)) = head
       /\ Len(url) > Len(head) => url[Len(head) + 1] = "&"
       /\ CalledFields = {} => url = head
       /\ (CalledFields = {} /\ newArg = <<>>) => url = <<"?", "q", "=">>

\* A text that needs escaping was given to Query::new, and fields are present.
C5_Witness ==
    /\ newArg = T_inject_limit
    /\ Cardinality(CalledFields) >= 2
    /\ Len(to_url(q)) > 15

RECURSIVE DecimalValue(_)
DecimalValue(digits) ==
    IF digits = <<>> THEN 0
    ELSE 10 * DecimalValue(SubSeq(digits, 1, Len(digits) - 1))
         + ((CHOOSE i \in 1..10 : HexDigits[i] = digits[Len(digits)]) - 1)

IsDecimal(digits) ==
    /\ digits # <<>>
    /\ \A i \in 1..Len(digits) : \E d \in 1..10 : HexDigits[d] = digits[i]
    /\ Len(digits) > 1 => digits[1] # "0"

(***************************************************************************)
(* C9. The integers offset, limit and crop_length are written as their     *)
(* decimal digits, unencoded, zero included; Query::new("space")           *)
(* .with_offset(42).with_limit(21) gives ?q=space&offset=42&limit=21.      *)
(***************************************************************************)
C9_DecimalIntegers ==
    LET url == to_url(q)
        ps == Params(url)
    IN /\ \A f \in {"offset", "limit", "crop_length"} :
            lastArg[f] # None =>
                /\ IsDecimal(Written(ps, f))
                /\ DecimalValue(Written(ps, f)) = unwrap(lastArg[f])
       /\ (/\ newArg = T_space
           /\ CalledFields = {"offset", "limit"}
           /\ lastArg["offset"] = Some(42)
           /\ lastArg["limit"] = Some(21))
          => url = <<"?", "q", "=", "s", "p", "a", "c", "e", "&", "o", "f", "f", "s", "e", "t",
                     "=", "4", "2", "&", "l", "i", "m", "i", "t", "=", "2", "1">>

\* The documented example, built with_offset first and with_limit last.
C9_Witness ==
    /\ newArg = T_space
    /\ CalledFields = {"offset", "limit"}
    /\ lastArg["offset"] = Some(42)
    /\ lastCall = [field |-> "limit", value |-> 21]

(***************************************************************************)
(* C10. No parameter injection: whatever texts the caller gives, the       *)
(* query string holds one ? (its first character), as many & as fields are *)
(* present, and one = more than that; a text such as &limit=0 adds,        *)
(* removes or overrides no parameter.                                      *)
(***************************************************************************)
C10_NoInjection ==
    LET url == to_url(q)
        n == Cardinality(CalledFields)
    IN /\ url[1] = "?"
       /\ Count(url, "?") = 1
       /\ Count(url, "&") = n
       /\ Count(url, "=") - 1 = n

\* &limit=0 was given both as the query text and as the filter.
C10_Witness ==
    /\ newArg = T_inject_limit
    /\ lastArg["filters"] = Some(T_inject_limit)
    /\ Cardinality(CalledFields) >= 2

\* The fields in the order the wire contract lists their parameters.
WireOrder == <<"offset", "limit", "filters", "facet_filters", "facets_distribution",
               "attributes_to_retrieve", "attributes_to_crop", "crop_length",
               "attributes_to_highlight">>

\* The place of a parameter name in that order, 0 for a name that is not in it.
Rank(name) ==
    IF \E i \in 1..Len(WireOrder) : WireName(WireOrder[i]) = name
    THEN CHOOSE i \in 1..Len(WireOrder) : WireName(WireOrder[i]) = name
    ELSE 0

C2_FixedOrder ==
    LET ps == Params(to_url(q)) IN
    /\ \A i \in DOMAIN ps : Rank(ps[i].name) >= 1
    /\ \A i \in DOMAIN ps : \A j \in DOMAIN ps : i < j => Rank(ps[i].name) < Rank(ps[j].name)

\* A with_* step: calling it before or after any with_* of another field, with
\* any argument, gives the same query string.
C2_Commute ==
    (pc' = "building" /\ lastCall'.field # "none") =>
        LET f == lastCall'.field
            v == lastCall'.value
        IN \A g \in Fields \ {f} : \A w \in Values(g) :
              to_url(Apply(q', g, w)) = to_url(Apply(Apply(q, g, w), f, v))

(***************************************************************************)
(* C2. Call-order independence: two with_* calls on different fields give  *)
(* the same query string in either order, for every builder and all        *)
(* arguments; and the parameters of every query string stand in the fixed  *)
(* order offset, limit, filters, facetFilters, facetsDistribution,         *)
(* attributesToRetrieve, attributesToCrop, cropLength,                     *)
(* attributesToHighlight, whatever the order of the calls was.             *)
(***************************************************************************)
C2_CallOrderIndependence == []C2_FixedOrder /\ [][C2_Commute]_vars

\* with_offset was called after with_limit, and offset is written before limit.
C2_Witness ==
    /\ lastCall.field = "offset"
    /\ lastArg["limit"] # None
    /\ LET ps == Params(to_url(q))
       IN Len(ps) = 2 /\ ps[1].name = WireName("offset") /\ ps[2].name = WireName("limit")

C6_Frame ==
    /\ q'.query = q.query
    /\ \A g \in Fields : is_some(Get(q, g)) => is_some(Get(q', g))
    /\ (pc' = "building" /\ lastCall'.field # "none") =>
          LET f == lastCall'.field
              v == lastCall'.value
          IN /\ Get(q', f) = Some(v)
             /\ \A g \in Fields \ {f} : Get(q', g) = Get(q, g)

(***************************************************************************)
(* C6. Frame of the setters: a with_* call gives a builder in which the    *)
(* field it names is present with the argument given, and the query text   *)
(* and the other eight optional fields are as they were; no step changes   *)
(* the query text or makes a present field absent.                         *)
(***************************************************************************)
C6_SetterFrame == [][C6_Frame]_vars

\* with_crop_length has replaced a crop length given before, with another field present.
C6_Witness ==
    /\ lastCall.field = "crop_length"
    /\ replaced
    /\ Cardinality(Present(q)) >= 2

(***************************************************************************)
(* C8. execute is a pass-through: one call of execute hands the transport  *)
(* one request, the query string of the builder as it is at that moment,   *)
(* never a second one; what it returns is what the transport gave, the     *)
(* decoded envelope or the same error; and the builder is the same before  *)
(* and after.                                                              *)
(***************************************************************************)
C8_ExecutePassThrough ==
    /\ pc = "building" => (requests = <<>> /\ result = None)
    /\ pc # "building" =>
          /\ atCall # None
          /\ q = unwrap(atCall)
          /\ requests = <<to_url(unwrap(atCall))>>
    /\ pc = "awaiting" => result = None
    /\ pc = "returned" => (outcome # None /\ result = outcome)

\* The transport failed, and execute returned that failure after one request.
C8_Witness ==
    /\ pc = "returned"
    /\ result = Some(Err("transport"))
    /\ Len(requests) = 1
    /\ Cardinality(Present(q)) >= 1

RequiredKeys == {K_hits, K_offset, K_limit, K_nbHits, K_exhaustiveNbHits, K_processingTimeMs,
                 K_query}
OptionalKeys == {K_facetsDistribution, K_exhaustiveFacetsCount}

\* Every required key is there with a value of its documented shape.
RequiredWellTyped(json) ==
    \A k \in RequiredKeys : k \in DOMAIN json /\ json[k] = CompleteBody[k]

\* Every optional key is missing, null, or of its documented shape.
OptionalWellTyped(json) ==
    \A k \in OptionalKeys : k \notin DOMAIN json \/ json[k] \in {"null", CompleteBody[k]}

\* What an optional key decodes to, on its own.
OptionalDecoded(json, k) ==
    IF k \notin DOMAIN json \/ json[k] = "null" THEN None ELSE Some(json[k])

(***************************************************************************)
(* C7, as stated. Decoding a response into SearchResults<T> succeeds if    *)
(* and only if all seven required keys (hits, offset, limit, nbHits,       *)
(* exhaustiveNbHits, processingTimeMs, query) are present with well-typed  *)
(* values.                                                                 *)
(***************************************************************************)
C7_AsStated ==
    decoded # None => (unwrap(decoded).ok <=> RequiredWellTyped(unwrap(body)))

(***************************************************************************)
(* C7, amended. Decoding a JSON object into SearchResults<T> succeeds if   *)
(* and only if all seven required keys are present with well-typed values  *)
(* and each of facetsDistribution and exhaustiveFacetsCount is missing,    *)
(* null or well typed; it fails with a decode error otherwise, so a body   *)
(* missing a required key fails whatever the other keys hold. On success a *)
(* missing optional key gives an absent field, each of the two decoded     *)
(* from its own key alone, and keys that name no field change nothing.     *)
(***************************************************************************)
C7_DecodeContract ==
    decoded # None =>
        LET json == unwrap(body)
            r == unwrap(decoded)
            known == [k \in (DOMAIN json) \cap DocumentedKeys |-> json[k]]
        IN /\ r.ok <=> (RequiredWellTyped(json) /\ OptionalWellTyped(json))
           /\ ~r.ok => r = Err("decode")
           /\ r.ok => /\ r.value[6] = OptionalDecoded(json, K_facetsDistribution)
                      /\ r.value[7] = OptionalDecoded(json, K_exhaustiveFacetsCount)
           /\ from_json(known) = r

\* A body with no facetsDistribution, with exhaustiveFacetsCount and with a key
\* that names no field has been decoded, successfully.
C7_Witness ==
    /\ decoded # None
    /\ unwrap(decoded).ok
    /\ K_facetsDistribution \notin DOMAIN unwrap(body)
    /\ K_exhaustiveFacetsCount \in DOMAIN unwrap(body)
    /\ K_took \in DOMAIN unwrap(body)
    /\ unwrap(decoded).value[6] = None
    /\ unwrap(decoded).value[7] = Some("bool")

====
